---- MODULE Spec2Model ----
(***************************************************************************)
(* Model of the SAP business-document-processing Python clients: the       *)
(* polling loop CommonClient._poll_for_url (current client and legacy      *)
(* sap_document_classification_client), the thread-pool batch operations   *)
(* of the DC and DOX clients, ResultIterator, and the token cache with     *)
(* the requests sent through it (CommonClient.session, _get_oauth_session, *)
(* _request; legacy CommonAuth).                                           *)
(***************************************************************************)
EXTENDS Integers, Sequences, FiniteSets, TLC

\* ------------------------------------------------------------------ bounds

\* largest polling_max_attempts a client is constructed with
MaxAttempts == 4

\* largest number of documents (and of ground truths) of one batch call
MaxDocs == 3

\* largest polling_threads a client is constructed with
MaxThreads == 2

\* ------------------------------------------------------------- the poller

\* which package the client object comes from: sap_business_document_processing
\* ("current") or sap_document_classification_client ("legacy")
VARIABLE client

\* one call of _poll_for_url
VARIABLES polling_max_attempts, check_json_status, success_status,
          wait_status, attempt, requests, sleeps, outcome

pollVars == <<polling_max_attempts, check_json_status, success_status,
              wait_status, attempt, requests, sleeps, outcome>>

\* one batch call, its thread pool and the caller's use of what it returns
VARIABLES operation, silent, polling_threads, documents_paths,
          ground_truths_paths, pc, pass, max_workers, futures, gen_pos,
          returned, delivered, raised, pool_maxsize, mime_arguments,
          upload_mime_types

batchVars == <<operation, silent, polling_threads, documents_paths,
               ground_truths_paths, pc, pass, max_workers, futures, gen_pos,
               returned, delivered, raised, pool_maxsize, mime_arguments,
               upload_mime_types>>

\* the token cache of one client object, the clock, and the threads that
\* send requests through it
VARIABLES now, token_renewal_buffer, credentials, expires_in, access_token,
          session, token_requests, in_flight, thread, calls, service

authVars == <<now, token_renewal_buffer, credentials, expires_in,
              access_token, session, token_requests, in_flight, thread,
              calls, service>>

\* one request on its way through the HTTPAdapter with the Retry object
VARIABLES method, validate_flag, retry, wire, transport

transportVars == <<method, validate_flag, retry, wire, transport>>

\* the arguments and the result of one path_to_url; the argument of
\* make_oauth_url and what it returns for it and for its own result
VARIABLES base_url, url_path_prefix, path, url, auth_url, oauth_url

urlVars == <<base_url, url_path_prefix, path, url, auth_url, oauth_url>>

\* the arguments of one constructor call, the attributes it sets, and a
\* sleep between two polls of an operation of the constructed client
VARIABLES arguments, attributes, slept

ctorVars == <<arguments, attributes, slept>>

\* one call of train_model or deploy_model up to its poll
VARIABLE submit

submitVars == <<submit>>

restVars == <<transportVars, urlVars, ctorVars, submitVars>>

vars == <<client, pollVars, batchVars, authVars, restVars>>

Clients == {"current", "legacy"}

\* wait_status=None: equal to no status code
None == 0

\* status codes the status endpoint answers with
StatusCodes == {200, 202, 401, 404, 409, 503}

\* values of the JSON status field of a response body
JsonStatuses == {"SUCCEEDED", "FAILED", "PENDING"}

Responses == [status_code : StatusCodes, status : JsonStatuses]

STATUS_SUCCEEDED == "SUCCEEDED"

STATUS_FAILED == "FAILED"

SUCCEEDED_STATUSES == {"SUCCEEDED"}

FAILED_STATUSES == {"FAILED"}

\* (success_status, wait_status) pairs the callers of _poll_for_url pass
PollCalls == { <<200, None>>, <<200, 409>>, <<404, 200>> }

\* raise_for_status_with_logging: the error raised for a status code, or "none"
raise_for_status_with_logging(c, status_code) ==
    IF c = "current"
    THEN IF status_code = 401 THEN "BDPUnauthorizedException"
         ELSE IF 400 <= status_code /\ status_code < 500 THEN "BDPClientException"
         ELSE IF 500 <= status_code /\ status_code < 600 THEN "BDPServerException"
         ELSE "none"
    ELSE IF 400 <= status_code /\ status_code < 600 THEN "HTTPError"
         ELSE "none"

\* does the response count as "wait" (first branch of the loop body)
IsWait(c, wait, response) ==
    IF c = "current"
    THEN wait # None /\ response.status_code = wait
    ELSE response.status_code = wait

JsonSucceeded(c, response) ==
    IF c = "current" THEN response.status \in SUCCEEDED_STATUSES
    ELSE response.status = STATUS_SUCCEEDED

JsonFailed(c, response) ==
    IF c = "current" THEN response.status \in FAILED_STATUSES
    ELSE response.status = STATUS_FAILED

\* mutant of PollBranch: the wait branch goes on without the sleep
PollBranch_NoSleepOnWait(c, check, success, wait, response) ==
    IF IsWait(c, wait, response) THEN "next"
    ELSE IF response.status_code = success
    THEN IF check
         THEN IF JsonSucceeded(c, response) THEN "return"
              ELSE IF JsonFailed(c, response) THEN "failed"
              ELSE "sleep"
         ELSE "return"
    ELSE IF raise_for_status_with_logging(c, response.status_code) # "none"
         THEN raise_for_status_with_logging(c, response.status_code)
         ELSE "next"

\* mutant of PollBranch: a failure status is polled again like an
\* in-progress status
PollBranch_FailedKeepsPolling(c, check, success, wait, response) ==
    IF IsWait(c, wait, response) THEN "sleep"
    ELSE IF response.status_code = success
    THEN IF check
         THEN IF JsonSucceeded(c, response) THEN "return"
              ELSE "sleep"
         ELSE "return"
    ELSE IF raise_for_status_with_logging(c, response.status_code) # "none"
         THEN raise_for_status_with_logging(c, response.status_code)
         ELSE "next"

\* mutant of PollBranch: the body is inspected whatever check_json_status is
PollBranch_AlwaysChecksJson(c, check, success, wait, response) ==
    IF IsWait(c, wait, response) THEN "sleep"
    ELSE IF response.status_code = success
    THEN IF JsonSucceeded(c, response) THEN "return"
         ELSE IF JsonFailed(c, response) THEN "failed"
         ELSE "sleep"
    ELSE IF raise_for_status_with_logging(c, response.status_code) # "none"
         THEN raise_for_status_with_logging(c, response.status_code)
         ELSE "next"

\* the branch one iteration of the loop in _poll_for_url takes for a response:
\* "sleep" (sleep, next iteration), "return", "failed" (failed-operation
\* error), an HTTP error kind, or "next" (next iteration without a sleep)
PollBranch(c, check, success, wait, response) ==
    IF IsWait(c, wait, response) THEN "sleep"
    ELSE IF response.status_code = success
    THEN IF check
         THEN IF JsonSucceeded(c, response) THEN "return"
              ELSE IF JsonFailed(c, response) THEN "failed"
              ELSE "sleep"
         ELSE "return"
    ELSE IF raise_for_status_with_logging(c, response.status_code) # "none"
         THEN raise_for_status_with_logging(c, response.status_code)
         ELSE "next"

\* mutant of LoopContinues: one iteration too many
LoopContinues_OneMore(done, max_attempts) == done <= max_attempts

\* for _ in range(self.polling_max_attempts): is there another iteration
LoopContinues(done, max_attempts) == done < max_attempts

NoResponse == [status_code |-> None, status |-> "none"]

Polling == [kind |-> "Polling", response |-> NoResponse]

PollInit ==
    /\ client \in Clients
    /\ polling_max_attempts \in 0..MaxAttempts
    /\ check_json_status \in BOOLEAN
    /\ \E call \in PollCalls : success_status = call[1] /\ wait_status = call[2]
    /\ attempt = 0
    /\ requests = << >>
    /\ sleeps = 0
    /\ outcome = Polling

\* one iteration of the for loop: the GET and the branch on its response
PollAttempt ==
    /\ outcome.kind = "Polling"
    /\ LoopContinues(attempt, polling_max_attempts)
    /\ \E response \in Responses :
         LET branch == PollBranch(client, check_json_status, success_status,
                                  wait_status, response)
         IN /\ requests' = Append(requests, response)
            /\ attempt' = attempt + 1
            /\ sleeps' = IF branch = "sleep" THEN sleeps + 1 ELSE sleeps
            /\ outcome' = IF branch \in {"sleep", "next"} THEN outcome
                          ELSE [kind |-> branch, response |-> response]
    /\ UNCHANGED <<client, polling_max_attempts, check_json_status,
                   success_status, wait_status, batchVars, authVars,
                   restVars>>

\* the loop is exhausted: the polling-timeout exception
PollTimeout ==
    /\ outcome.kind = "Polling"
    /\ ~LoopContinues(attempt, polling_max_attempts)
    /\ outcome' = [kind |-> "timeout", response |-> NoResponse]
    /\ UNCHANGED <<client, polling_max_attempts, check_json_status,
                   success_status, wait_status, attempt, requests, sleeps,
                   batchVars, authVars, restVars>>


\* no poll is running (the batch specification)
PollIdle ==
    /\ polling_max_attempts = 0
    /\ check_json_status = TRUE
    /\ success_status = 200
    /\ wait_status = None
    /\ attempt = 0
    /\ requests = << >>
    /\ sleeps = 0
    /\ outcome = Polling

\* ------------------------------------------------------ batch operations

Min(a, b) == IF a < b THEN a ELSE b

\* document paths (for get_extraction_for_documents: the document ids)
PathNames == <<"a.pdf", "b.pdf", "c.pdf", "d.pdf", "e.pdf">>

Paths == { PathNames[i] : i \in 1..Min(MaxDocs, Len(PathNames)) }

GroundTruths == {"gt"}

\* the batch operations of each client
Operations(c) ==
    IF c = "current"
    THEN {"classify_documents", "upload_documents_to_dataset",
          "get_extraction_for_documents",
          "extract_information_from_documents_with_options",
          "extract_information_from_document"}
    ELSE {"classify_documents", "upload_documents_to_dataset"}

\* extract_information_from_document and ..._with_options: the batch call on
\* the list [document_path], then next() on the iterator it returns
SingleDocument(op) == op = "extract_information_from_document"

\* the operations that run extract_information_from_documents_with_options
Extracts(op) ==
    op = "extract_information_from_documents_with_options"
        \/ SingleDocument(op)

\* sequences over S of length 0..n
SeqUpTo(S, n) == UNION { [1..k -> S] : k \in 0..n }

\* sequences over S of length 0..n without repetition
DistinctSeqUpTo(S, n) ==
    { q \in SeqUpTo(S, n) : \A i, j \in 1..Len(q) : q[i] = q[j] => i = j }

\* a per-item value: a result dictionary (exception = FALSE) or an exception
\* object (exception = TRUE); "of" is the input it was computed from and
\* document_path the path attached to it ("none": no such key or attribute)
Value(status, exception, of, document_path) ==
    [status |-> status, exception |-> exception, of |-> of,
     document_path |-> document_path]

NoValue == Value("NONE", FALSE, "none", "none")

\* an input handed to the per-item operation
Input(key) == Value("INPUT", FALSE, key, "none")

\* zip(*iterables) of pool.map: one argument tuple per index that every list has
\* (all lists but ground_truths_paths are built with the length of the paths)
MapArgs(op, paths, ground_truths) ==
    IF op = "upload_documents_to_dataset"
    THEN [i \in 1..Min(Len(paths), Len(ground_truths)) |-> Input(paths[i])]
    ELSE [i \in 1..Len(paths) |-> Input(paths[i])]

\* mutant of PoolSize: one worker thread per item, whatever polling_threads is
PoolSize_PerItem(c, op, threads, n) == n

\* ThreadPoolExecutor(max_workers) of each batch operation
PoolSize(c, op, threads, n) ==
    IF c = "legacy" /\ op = "classify_documents" THEN threads
    ELSE Min(threads, n)

\* pool.map: one future per argument tuple, in the order of the arguments
\* (ok records whether the service let the item's operation succeed)
Submit(args) ==
    [i \in 1..Len(args) |-> [arg |-> args[i], state |-> "queued",
                             result |-> NoValue, ok |-> TRUE]]

\* mutant of function_wrap_errors: the exception is swallowed and the item
\* reported like a success
function_wrap_errors_Swallow(c, arg, ok) ==
    Value("SUCCEEDED", FALSE, arg.of, "none")

\* function_wrap_errors / _function_wrap_errors: what the wrapped call gives
\* for an input when the service lets it succeed (ok) or makes it raise
function_wrap_errors(c, arg, ok) ==
    IF ok THEN Value("SUCCEEDED", FALSE, arg.of, "none")
    ELSE IF c = "current" THEN Value("FAILED", TRUE, arg.of, "none")
    ELSE Value("FAILED", FALSE, arg.of, "none")

\* mutant of WrapErrors: an exception handed in as the id is polled like an id
WrapErrors_PollsException(c, op, arg, ok) ==
    IF op \in {"classify_documents", "upload_documents_to_dataset"}
    THEN [function_wrap_errors(c, arg, ok) EXCEPT !.document_path = arg.of]
    ELSE function_wrap_errors(c, arg, ok)

\* the per-item function handed to pool.map: _classify_document_wrap_errors,
\* _upload_document_to_dataset_wrap_errors, _single_upload_wrap_errors,
\* _get_extraction_for_document_wrap_errors
WrapErrors(c, op, arg, ok) ==
    IF op \in {"classify_documents", "upload_documents_to_dataset"}
    THEN [function_wrap_errors(c, arg, ok) EXCEPT !.document_path = arg.of]
    ELSE IF op = "get_extraction_for_documents" /\ arg.exception
    THEN arg
    ELSE function_wrap_errors(c, arg, ok)

\* does the per-item function talk to the service for this input
NeedsService(op, arg) ==
    ~(op = "get_extraction_for_documents" /\ arg.exception)

\* the function the pool runs in the current pass of the call
PassOperation(op, p) ==
    IF Extracts(op)
    THEN IF p = 1 THEN "_single_upload" ELSE "get_extraction_for_documents"
    ELSE op

\* a future's result is set by the worker that ran it
SetResult(fs, i, r) ==
    [fs EXCEPT ![i].state = "done", ![i].result = r]

\* mutant of AllDone: the pool is left without waiting for its workers
AllDone_NoWait(fs) == TRUE

\* the exit of the with block (shutdown(wait=True)): every future is done
AllDone(fs) == \A i \in 1..Len(fs) : fs[i].state = "done"

Running(fs) == { i \in 1..Len(fs) : fs[i].state = "running" }

Queued(fs) == { i \in 1..Len(fs) : fs[i].state = "queued" }

\* the results the generator of pool.map still has to yield
Remaining(fs, pos) ==
    IF pos >= Len(fs) THEN << >>
    ELSE [i \in 1..(Len(fs) - pos) |-> fs[pos + i].result]

\* upload_ids of extract_information_from_documents_with_options: the
\* exception of a failed upload, the returned id of a successful one
UploadIds(fs) ==
    [i \in 1..Len(fs) |->
        IF fs[i].result.exception THEN fs[i].result
        ELSE Input(fs[i].result.of)]

\* legacy _validate_results: does it raise for the results it iterates over
ValidateRaises(results) ==
    \E i \in 1..Len(results) : results[i].status # STATUS_SUCCEEDED

NoReturn == [type |-> "none", list |-> << >>]

\* content types of uploaded files (CONTENT_TYPE_PDF, CONTENT_TYPE_PNG)
ContentTypes == {"application/pdf", "image/png"}

\* a value of the argument mime_type_list: None, a list, or something with
\* items that is not a list (a tuple)
MimeTypeListValue(type, items) == [type |-> type, items |-> items]

NoneList == MimeTypeListValue("None", << >>)

\* lists of content types of length 0..MaxDocs, alternating from either type
AlternatingTypes ==
    { [i \in 1..k |-> IF (i + start) % 2 = 0 THEN "application/pdf"
                      ELSE "image/png"] :
        k \in 0..MaxDocs, start \in {0, 1} }

MimeTypeLists ==
    {NoneList}
      \cup { MimeTypeListValue(type, items) :
               type \in {"list", "tuple"}, items \in AlternatingTypes }

\* the operations without the mime type arguments
NoMimeArguments == [mime_type |-> "none", mime_type_list |-> NoneList]

\* mutant of MimeTypeListRejected: only the type of the argument is checked
MimeTypeListRejected_AnyLength(mime_type_list, number_of_documents) ==
    /\ mime_type_list.type # "None"
    /\ mime_type_list.type # "list"

\* elif not isinstance(mime_type_list, list)
\*         or len(mime_type_list) != number_of_documents: raise ValueError
MimeTypeListRejected(mime_type_list, number_of_documents) ==
    /\ mime_type_list.type # "None"
    /\ \/ mime_type_list.type # "list"
       \/ Len(mime_type_list.items) # number_of_documents

\* the mime_type_list handed to pool.map:
\* [mime_type] * number_of_documents if the argument is None
UploadMimeTypes(args, number_of_documents) ==
    IF args.mime_type_list.type = "None"
    THEN [i \in 1..number_of_documents |-> args.mime_type]
    ELSE args.mime_type_list.items

BatchIdle ==
    /\ operation = "none"
    /\ silent = TRUE
    /\ polling_threads = 1
    /\ documents_paths = << >>
    /\ ground_truths_paths = << >>
    /\ pc = "idle"
    /\ pass = 1
    /\ max_workers = 0
    /\ futures = << >>
    /\ gen_pos = 0
    /\ returned = NoReturn
    /\ delivered = << >>
    /\ raised = "none"
    /\ pool_maxsize = 1
    /\ mime_arguments = NoMimeArguments
    /\ upload_mime_types = << >>

BatchInit ==
    /\ client \in Clients
    /\ operation \in Operations(client)
    /\ silent \in (IF client = "legacy" THEN BOOLEAN ELSE {TRUE})
    /\ polling_threads \in 1..MaxThreads
    /\ documents_paths \in
         (IF SingleDocument(operation) THEN { <<p>> : p \in Paths }
          ELSE DistinctSeqUpTo(Paths, MaxDocs))
    /\ ground_truths_paths \in
         (IF operation = "upload_documents_to_dataset"
          THEN SeqUpTo(GroundTruths, MaxDocs) ELSE {<< >>})
    /\ pc = "called"
    /\ pass = 1
    /\ max_workers = 0
    /\ futures = << >>
    /\ gen_pos = 0
    /\ returned = NoReturn
    /\ delivered = << >>
    /\ raised = "none"
    \* the session is built with pool_maxsize=polling_threads
    /\ pool_maxsize = polling_threads
    /\ mime_arguments \in
         (IF Extracts(operation)
          THEN [mime_type : ContentTypes,
                mime_type_list :
                    IF SingleDocument(operation) THEN {NoneList}
                    ELSE MimeTypeLists]
          ELSE {NoMimeArguments})
    /\ upload_mime_types = << >>

\* the error an empty list of documents is rejected with: the DC clients
\* assert number_of_documents > 0, the DOX client raises ValueError
ArgumentError(op) ==
    IF op \in {"classify_documents", "upload_documents_to_dataset"}
    THEN "AssertionError" ELSE "ValueError"

\* the call up to pool.map: the check of the arguments, the pool, the futures
BatchCall ==
    /\ pc = "called"
    /\ IF Len(documents_paths) = 0
       THEN /\ pc' = "raised"
            /\ raised' = ArgumentError(operation)
            /\ UNCHANGED <<max_workers, futures, upload_mime_types>>
       ELSE IF Extracts(operation)
               /\ MimeTypeListRejected(mime_arguments.mime_type_list,
                                       Len(documents_paths))
       THEN /\ pc' = "raised"
            /\ raised' = "ValueError"
            /\ UNCHANGED <<max_workers, futures, upload_mime_types>>
       ELSE /\ pc' = "pool"
            /\ UNCHANGED raised
            /\ upload_mime_types' =
                 IF Extracts(operation)
                 THEN UploadMimeTypes(mime_arguments, Len(documents_paths))
                 ELSE << >>
            /\ max_workers' = PoolSize(client, operation, polling_threads,
                                       Len(documents_paths))
            /\ futures' = Submit(MapArgs(operation, documents_paths,
                                         ground_truths_paths))
    /\ UNCHANGED <<client, pollVars, authVars, restVars, pool_maxsize, mime_arguments,
                   operation, silent,
                   polling_threads,
                   documents_paths, ground_truths_paths, pass, gen_pos,
                   returned, delivered>>

\* an idle worker thread takes the oldest queued work item
WorkerStart ==
    /\ pc = "pool"
    /\ Queued(futures) # {}
    /\ Cardinality(Running(futures)) < max_workers
    /\ LET i == CHOOSE q \in Queued(futures) :
                    \A r \in Queued(futures) : q <= r
       IN futures' = [futures EXCEPT ![i].state = "running"]
    /\ UNCHANGED <<client, pollVars, authVars, restVars, pool_maxsize, mime_arguments,
                   upload_mime_types,
                   raised, operation, silent,
                   polling_threads,
                   documents_paths, ground_truths_paths, pc, pass,
                   max_workers, gen_pos, returned, delivered>>

\* a worker thread finishes its item: the per-item function returns
WorkerFinish ==
    /\ pc = "pool"
    /\ \E i \in Running(futures) :
         \E ok \in BOOLEAN :
            /\ (~NeedsService(PassOperation(operation, pass), futures[i].arg)
                    => ok)
            /\ futures' = SetResult([futures EXCEPT ![i].ok = ok], i,
                              WrapErrors(client, PassOperation(operation, pass),
                                         futures[i].arg, ok))
    /\ UNCHANGED <<client, pollVars, authVars, restVars, pool_maxsize, mime_arguments,
                   upload_mime_types,
                   raised, operation, silent,
                   polling_threads,
                   documents_paths, ground_truths_paths, pc, pass,
                   max_workers, gen_pos, returned, delivered>>

\* extract_information_from_documents_with_options after the upload pool has
\* shut down: upload_ids, then get_extraction_for_documents up to its pool.map
UploadsDone ==
    /\ pc = "pool"
    /\ Extracts(operation)
    /\ pass = 1
    /\ AllDone(futures)
    /\ pass' = 2
    /\ max_workers' = Min(polling_threads, Len(futures))
    /\ futures' = Submit(UploadIds(futures))
    /\ UNCHANGED <<client, pollVars, authVars, restVars, pool_maxsize, mime_arguments,
                   upload_mime_types,
                   raised, operation, silent,
                   polling_threads,
                   documents_paths, ground_truths_paths, pc, gen_pos,
                   returned, delivered>>

\* the rest of the call once the pool has shut down (all futures are done)
BatchReturn ==
    /\ pc = "pool"
    /\ AllDone(futures)
    /\ Extracts(operation) => pass = 2
    /\ IF client = "current"
       THEN /\ returned' = [type |-> "ResultIterator", list |-> << >>]
            /\ pc' = "returned"
            /\ UNCHANGED gen_pos
       ELSE IF operation = "classify_documents"
       THEN \* list(results), then _validate_results(results, ...)
            LET classification_results == Remaining(futures, gen_pos)
                pos == Len(futures)
            IN /\ gen_pos' = pos
               /\ IF ~silent /\ ValidateRaises(Remaining(futures, pos))
                  THEN pc' = "raised" /\ UNCHANGED returned
                  ELSE /\ pc' = "returned"
                       /\ returned' = [type |-> "list",
                                       list |-> classification_results]
       ELSE \* _validate_results(results, ...), then return results
            IF silent
            THEN /\ pc' = "returned"
                 /\ returned' = [type |-> "generator", list |-> << >>]
                 /\ UNCHANGED gen_pos
            ELSE /\ gen_pos' = Len(futures)
                 /\ IF ValidateRaises(Remaining(futures, gen_pos))
                    THEN pc' = "raised" /\ UNCHANGED returned
                    ELSE /\ pc' = "returned"
                         /\ returned' = [type |-> "generator",
                                         list |-> << >>]
    \* _validate_results: raise Exception(error_message + ...)
    /\ raised' = IF pc' = "raised" THEN "Exception" ELSE raised
    /\ UNCHANGED <<client, pollVars, authVars, restVars, pool_maxsize, mime_arguments,
                   upload_mime_types,
                   operation, silent,
                   polling_threads,
                   documents_paths, ground_truths_paths, pass, max_workers,
                   futures, delivered>>

\* what one next() on the returned object gives: [how, value] with how
\* "return", "raise" (ResultIterator.__next__ re-raises an exception value)
\* or "stop" (StopIteration)
Delivery(how, value) == [how |-> how, value |-> value]

\* the number of values the caller has got (a StopIteration is not a value)
NumDelivered ==
    Cardinality({ j \in 1..Len(delivered) : delivered[j].how # "stop" })

\* the values the returned object still holds
Pending ==
    IF returned.type = "list"
    THEN SubSeq(returned.list, NumDelivered + 1, Len(returned.list))
    ELSE Remaining(futures, gen_pos)

\* mutant of ResultIteratorNext: an exception value is returned, not raised
ResultIteratorNext_ReturnsError(result) == Delivery("return", result)

\* ResultIterator.__next__ on the value the base iterator yields
ResultIteratorNext(result) ==
    IF result.exception THEN Delivery("raise", result)
    ELSE Delivery("return", result)

Exhausted ==
    Len(delivered) > 0 /\ delivered[Len(delivered)].how = "stop"

\* the caller calls next() on (the iterator of) what the call returned
CallerNext ==
    /\ pc = "returned"
    /\ ~Exhausted
    \* the single-document call is over with its one next()
    /\ SingleDocument(operation) => delivered = << >>
    /\ IF Len(Pending) = 0
       THEN /\ delivered' = Append(delivered, Delivery("stop", NoValue))
            /\ UNCHANGED gen_pos
       ELSE /\ delivered' = Append(delivered,
                IF returned.type = "ResultIterator"
                THEN ResultIteratorNext(Pending[1])
                ELSE Delivery("return", Pending[1]))
            /\ gen_pos' = IF returned.type = "list" THEN gen_pos
                          ELSE gen_pos + 1
    /\ UNCHANGED <<client, pollVars, authVars, restVars, pool_maxsize, mime_arguments,
                   upload_mime_types,
                   raised, operation, silent,
                   polling_threads,
                   documents_paths, ground_truths_paths, pc, pass,
                   max_workers, futures, returned>>

\* mutant of FirstError: list() goes on to the last error
FirstError_Last(results) ==
    LET E == { i \in 1..Len(results) :
                 ResultIteratorNext(results[i]).how = "raise" }
    IN IF E = {} THEN 0 ELSE CHOOSE i \in E : \A j \in E : j <= i

\* list(iterator): the index of the first value on which __next__ raises,
\* which ends the collection (0: none raises)
FirstError(results) ==
    LET E == { i \in 1..Len(results) :
                 ResultIteratorNext(results[i]).how = "raise" }
    IN IF E = {} THEN 0 ELSE CHOOSE i \in E : \A j \in E : i <= j

\* the caller materializes a fresh ResultIterator with list(iterator):
\* __next__ is called until it raises or signals StopIteration
CallerList ==
    /\ pc = "returned"
    /\ returned.type = "ResultIterator"
    /\ ~SingleDocument(operation)
    /\ delivered = << >>
    /\ LET k == FirstError(Pending)
           n == IF k = 0 THEN Len(Pending) ELSE k
       IN /\ delivered' =
                [j \in 1..n |-> ResultIteratorNext(Pending[j])]
                    \o (IF k = 0 THEN <<Delivery("stop", NoValue)>>
                        ELSE << >>)
          /\ gen_pos' = gen_pos + n
    /\ pc' = "listed"
    /\ UNCHANGED <<client, pollVars, authVars, restVars, pool_maxsize, mime_arguments,
                   upload_mime_types,
                   raised, operation, silent,
                   polling_threads,
                   documents_paths, ground_truths_paths, pass,
                   max_workers, futures, returned>>

\* ------------------------------------------------- tokens and requests

\* the latest reading of the clock (datetime.now(), in ticks)
MaxTime == 3

\* the number of get/post/delete calls made on the client object
MaxCalls == 3

\* threads that send requests through the one client object
AuthThreads == {1, 2}

\* token_renewal_buffer values a legacy client is constructed with
Buffers == {0, 1}

\* the expires_in values in the answers of the token endpoint
TokenLifetimes == {1, 2}

\* status codes the service answers an API request with
ApiStatuses == {200, 204, 302, 399, 400, 401, 404, 409, 499, 500, 503, 599,
                600}

\* the callers of the client object and the service it talks to: the
\* threads that make calls and the status codes the service answers with
Service(callers, statuses) == [callers |-> callers, statuses |-> statuses]

CredentialNames == {"client_id", "client_secret", "uaa_url"}

\* a token as the token endpoint issued it, with the time it expires at
Token(expires_at) == [expires_at |-> expires_at]

\* no token: self._session is None, CommonAuth has no access_token attribute
NoToken == Token(-1)

\* tries of _get_oauth_session
tries == 2

\* what the token endpoint (through fetch_token, or requests.post and
\* raise_for_status) gives: a token with a lifetime, a response without a
\* token (MissingTokenError, current client), or any other error
TokenOutcomes(c) ==
    { [kind |-> "token", lifetime |-> l] : l \in TokenLifetimes }
      \cup { [kind |-> k, lifetime |-> 0] :
               k \in (IF c = "current"
                      THEN {"MissingTokenError", "OAuth2Error"}
                      ELSE {"HTTPError"}) }

\* the outcome of one operation of a thread: kind is "response" (returned)
\* or the class of the exception raised; response and status_code are what
\* the exception carries; cause is the __cause__ of the exception
Result(kind, response, status_code, cause) ==
    [kind |-> kind, response |-> response, status_code |-> status_code,
     cause |-> cause]

NoResult == Result("none", None, None, "none")

\* mutant of CredentialsMissing: only the client id is looked at
CredentialsMissing_IdOnly(creds) == ~creds["client_id"]

\* _get_oauth_session: not uaa_url or not client_id or not client_secret
CredentialsMissing(creds) ==
    ~creds["uaa_url"] \/ ~creds["client_id"] \/ ~creds["client_secret"]

\* mutant of NeedsRefresh: every call refreshes
NeedsRefresh_Always(time, buffer, expires) == TRUE

\* CommonAuth.get_access_token: now + token_renewal_buffer > self.expires_in
NeedsRefresh(time, buffer, expires) == time + buffer > expires

\* mutant of RequestResult: validation also with validate=False
RequestResult_AlwaysValidates(c, validate, status_code) ==
    LET e == raise_for_status_with_logging(c, status_code)
    IN IF e # "none"
       THEN Result(e, status_code, status_code, "none")
       ELSE Result("response", status_code, None, "none")

\* CommonClient._request after request_func returned the response: the
\* exception raise_for_status_with_logging builds, or the response. The
\* legacy session.get/post/delete return the response
RequestResult(c, validate, status_code) ==
    LET e == raise_for_status_with_logging(c, status_code)
    IN IF c = "current" /\ validate /\ e # "none"
       THEN Result(e, status_code, IF e = "BDPUnauthorizedException"
                                    THEN 401 ELSE status_code, "none")
       ELSE Result("response", status_code, None, "none")

\* the exception _poll_for_url ends with, as its raise statement builds it:
\* BDPFailedAsynchronousOperationException(message, response=response), the
\* exception of raise_for_status_with_logging, or the polling timeout; the
\* legacy FailedCallException(response) and HTTPError keep the response only
PollError(c, kind, response) ==
    IF kind = "failed"
    THEN Result(IF c = "current"
                THEN "BDPFailedAsynchronousOperationException"
                ELSE "FailedCallException",
                response.status_code, None, "none")
    ELSE IF kind = "timeout"
    THEN Result(IF c = "current" THEN "BDPPollingTimeoutException"
                ELSE "PollingTimeoutException", None, None, "none")
    ELSE IF c = "current"
    THEN RequestResult(c, TRUE, response.status_code)
    ELSE Result(kind, response.status_code, None, "none")

\* a thread between two operations. Of its last operation it keeps: was a
\* valid token cached when it looked (valid_at_check), now + buffer minus
\* the cached expiry at that time (margin), the token requests it made
\* (fetches), the requests it sent (sends), and the time the token of the
\* request had left when it was sent, less the renewal buffer (slack)
IdleThread ==
    [pc |-> "idle", validate |-> TRUE, i |-> 0, valid_at_check |-> FALSE,
     margin |-> 0, fetches |-> 0, fetched |-> NoToken, sends |-> 0,
     slack |-> 0, result |-> NoResult]

\* the operation of thread th ends with result r
Finish(th, r) == [th EXCEPT !.pc = "idle", !.result = r]

\* the request goes out with token tok. The OAuth2Session of the current
\* client raises TokenExpiredError for a token past its expires_at (it has
\* no auto_refresh_url); CommonAuth.__call__ reads self.access_token
Send(c, th, tok, time) ==
    IF c = "current" /\ tok.expires_at < time
    THEN Finish(th, Result("TokenExpiredError", None, None, "none"))
    ELSE IF c = "legacy" /\ tok = NoToken
    THEN Finish(th, Result("AttributeError", None, None, "none"))
    ELSE [th EXCEPT !.pc = "await_response", !.sends = th.sends + 1,
                    !.slack = tok.expires_at - (time + token_renewal_buffer)]

\* is a token cached that is still valid: the session of the current
\* client; for CommonAuth a token with now + buffer before its expiry
CachedValid(c) ==
    IF c = "current" THEN session # NoToken
    ELSE access_token # NoToken
           /\ now + token_renewal_buffer < access_token.expires_at
                /\ expires_in = access_token.expires_at

AuthIdle ==
    /\ now = 0
    /\ token_renewal_buffer = 0
    /\ credentials = [n \in CredentialNames |-> TRUE]
    /\ expires_in = 0
    /\ access_token = NoToken
    /\ session = NoToken
    /\ token_requests = 0
    /\ in_flight = {}
    /\ thread = [t \in AuthThreads |-> IdleThread]
    /\ calls = 0
    /\ service = Service({}, {})

\* a client object after construction: the current client has no session
\* yet and no renewal buffer; CommonAuth.__init__ sets expires_in to the
\* time of construction and no access_token
AuthInit ==
    /\ client \in Clients
    /\ now = 0
    /\ token_renewal_buffer \in (IF client = "legacy" THEN Buffers ELSE {0})
    /\ credentials \in (IF client = "current"
                        THEN [CredentialNames -> BOOLEAN]
                        ELSE {[n \in CredentialNames |-> TRUE]})
    /\ expires_in = 0
    /\ access_token = NoToken
    /\ session = NoToken
    /\ token_requests = 0
    /\ in_flight = {}
    /\ thread = [t \in AuthThreads |-> IdleThread]
    /\ calls = 0
    /\ service = Service(AuthThreads, {200, 401})

\* time passes
Tick ==
    /\ now < MaxTime
    /\ now' = now + 1
    /\ UNCHANGED <<client, pollVars, batchVars, restVars,
                   token_renewal_buffer,
                   credentials, expires_in, access_token, session,
                   token_requests, in_flight, thread, calls, service>>

\* thread t calls get/post/delete: the current client evaluates self.session
\* (and _get_oauth_session up to the loop), the legacy session calls
\* CommonAuth.__call__ and so get_access_token; with a cached token the
\* request goes out
Call(t) ==
    /\ thread[t].pc = "idle"
    /\ t \in service.callers
    /\ calls < MaxCalls
    /\ calls' = calls + 1
    /\ \E validate \in (IF client = "current" THEN BOOLEAN ELSE {FALSE}) :
         LET th == [thread[t] EXCEPT
                      !.validate = validate, !.i = 0,
                      !.valid_at_check = CachedValid(client),
                      !.margin = now + token_renewal_buffer - expires_in,
                      !.fetches = 0, !.fetched = NoToken, !.sends = 0,
                      !.slack = 0, !.result = NoResult]
             fetch == [th EXCEPT !.pc = "fetch_token"]
         IN thread' = [thread EXCEPT ![t] =
              IF client = "current"
              THEN IF session = NoToken
                   THEN IF CredentialsMissing(credentials)
                        THEN Finish(th, Result("BDPClientException", None,
                                               None, "none"))
                        ELSE fetch
                   ELSE Send(client, th, session, now)
              ELSE IF NeedsRefresh(now, token_renewal_buffer, expires_in)
                   THEN fetch
                   ELSE Send(client, th, access_token, now)]
    /\ UNCHANGED <<client, pollVars, batchVars, restVars, now,
                   token_renewal_buffer,
                   credentials, expires_in, access_token, session,
                   token_requests, in_flight, service>>

\* the token request goes out: session.fetch_token / requests.post
FetchToken(t) ==
    /\ thread[t].pc = "fetch_token"
    /\ token_requests' = token_requests + 1
    /\ in_flight' = in_flight \cup {t}
    /\ thread' = [thread EXCEPT ![t].pc = "token_response",
                                ![t].fetches = thread[t].fetches + 1]
    /\ UNCHANGED <<client, pollVars, batchVars, restVars, now,
                   token_renewal_buffer,
                   credentials, expires_in, access_token, session, calls,
                   service>>

\* mutant of ExpiryAfter: a failed token request resets the cached expiry
ExpiryAfter_ResetOnFailure(c, o, time, expires) ==
    IF c = "legacy"
    THEN IF o.kind = "token" THEN time + o.lifetime ELSE time
    ELSE expires

\* self.expires_in after the answer o to a token request: line 42 of the
\* legacy get_access_token is reached only if raise_for_status_with_logging
\* did not raise; the current client keeps no expiry of its own
ExpiryAfter(c, o, time, expires) ==
    IF c = "legacy" /\ o.kind = "token" THEN time + o.lifetime
    ELSE expires

\* the token request is answered. Current client: the session with the
\* token is returned, MissingTokenError is retried while i < tries - 1 and
\* then wrapped in BDPApiException, any other exception propagates as it is.
\* Legacy client: raise_for_status_with_logging raises, or line 42 sets
\* self.expires_in
TokenResponse(t) ==
    /\ thread[t].pc = "token_response"
    /\ in_flight' = in_flight \ {t}
    /\ \E o \in TokenOutcomes(client) :
         LET th == thread[t]
         IN IF o.kind = "token"
            THEN /\ thread' = [thread EXCEPT
                      ![t].pc = "store_token",
                      ![t].fetched = Token(now + o.lifetime)]
                 /\ expires_in' = ExpiryAfter(client, o, now, expires_in)
            ELSE /\ expires_in' = ExpiryAfter(client, o, now, expires_in)
                 /\ thread' = [thread EXCEPT ![t] =
                      IF o.kind = "MissingTokenError"
                      THEN IF th.i < tries - 1
                           THEN [th EXCEPT !.pc = "fetch_token",
                                           !.i = th.i + 1]
                           ELSE Finish(th, Result("BDPApiException", None,
                                                  None, o.kind))
                      ELSE Finish(th, Result(o.kind, None, None, "none"))]
    /\ UNCHANGED <<client, pollVars, batchVars, restVars, now,
                   token_renewal_buffer,
                   credentials, access_token, session, token_requests,
                   calls, service>>

\* the fetched token is stored (self._session = ..., self.access_token = ...)
\* and the request goes out with what the attribute holds
StoreToken(t) ==
    /\ thread[t].pc = "store_token"
    /\ IF client = "current"
       THEN session' = thread[t].fetched /\ UNCHANGED access_token
       ELSE access_token' = thread[t].fetched /\ UNCHANGED session
    /\ thread' = [thread EXCEPT ![t] =
                    Send(client, thread[t], thread[t].fetched, now)]
    /\ UNCHANGED <<client, pollVars, batchVars, restVars, now,
                   token_renewal_buffer,
                   credentials, expires_in, token_requests, in_flight,
                   calls, service>>

\* the service answers the request of thread t
Response(t) ==
    /\ thread[t].pc = "await_response"
    /\ \E status_code \in service.statuses :
         thread' = [thread EXCEPT ![t] =
            Finish(thread[t],
                   RequestResult(client, thread[t].validate, status_code))]
    /\ UNCHANGED <<client, pollVars, batchVars, restVars, now,
                   token_renewal_buffer,
                   credentials, expires_in, access_token, session,
                   token_requests, in_flight, calls, service>>

\* ---------------------------------------------------- the retry transport

Methods == {"GET", "POST", "DELETE"}

\* status codes the server answers one transmission with
TransportStatuses == {200, 404, 500, 502, 503, 504}

\* retries=3 of add_retry_to_session and retry_session
retries == 3

status_forcelist == {500, 502, 503, 504}

\* mutant of allowed_methods: every method is retried
allowed_methods_All == {"GET", "POST", "DELETE"}

\* allowed_methods=['GET'] (legacy: method_whitelist=['GET'])
allowed_methods == {"GET"}

\* mutant of raise_on_status: the exhausted Retry raises
raise_on_status_True == TRUE

raise_on_status == FALSE

\* the counters of the Retry object that a response can use up
Retry(total, status) == [total |-> total, status |-> status]

\* Retry.is_retry for a response without a Retry-After header
is_retry(m, status_code) ==
    m \in allowed_methods /\ status_code \in status_forcelist

\* Retry.increment for a response
increment(r) == Retry(r.total - 1, r.status - 1)

\* Retry.is_exhausted
is_exhausted(r) == Min(r.total, r.status) < 0

\* the request in the adapter: state "ready" (to be transmitted), "backoff"
\* (Retry.sleep), "returned" (response is what session.request returned and
\* result what _request made of it) or "raised"
Transport(state, response, result) ==
    [state |-> state, response |-> response, result |-> result]

TransportIdle ==
    /\ method = "GET"
    /\ validate_flag = TRUE
    /\ retry = Retry(retries, retries)
    /\ wire = << >>
    /\ transport = Transport("idle", None, NoResult)

\* get / post / delete is called: the request enters the mounted adapter
TransportInit ==
    /\ client \in Clients
    /\ method \in Methods
    /\ validate_flag \in (IF client = "current" THEN BOOLEAN ELSE {FALSE})
    /\ retry = Retry(retries, retries)
    /\ wire = << >>
    /\ transport = Transport("ready", None, NoResult)

\* session.request returns the response to _request
Returned(status_code) ==
    Transport("returned", status_code,
              RequestResult(client, validate_flag, status_code))

\* one transmission and what urlopen does with the response: return it,
\* or use up a retry and go to sleep, or (Retry exhausted) return it or
\* raise MaxRetryError as raise_on_status says
TransportSend ==
    /\ transport.state = "ready"
    /\ \E status_code \in TransportStatuses :
         /\ wire' = Append(wire, status_code)
         /\ IF is_retry(method, status_code)
            THEN IF is_exhausted(increment(retry))
                 THEN /\ transport' =
                           IF raise_on_status
                           THEN Transport("raised", status_code,
                                    Result("MaxRetryError", None, None,
                                           "none"))
                           ELSE Returned(status_code)
                      /\ UNCHANGED retry
                 ELSE /\ retry' = increment(retry)
                      /\ transport' = Transport("backoff", None, NoResult)
            ELSE /\ transport' = Returned(status_code)
                 /\ UNCHANGED retry
    /\ UNCHANGED <<client, pollVars, batchVars, authVars, urlVars, ctorVars,
                   submitVars,
                   method, validate_flag>>

\* Retry.sleep: the backoff before the next transmission
TransportSleep ==
    /\ transport.state = "backoff"
    /\ transport' = Transport("ready", None, NoResult)
    /\ UNCHANGED <<client, pollVars, batchVars, authVars, urlVars, ctorVars,
                   submitVars,
                   method, validate_flag, retry, wire>>

\* --------------------------------------------------------------- the URLs

\* largest number of slashes a base URL ends with or a path starts with
MaxSlashes == 2

\* strings are sequences of characters; k slashes
Slashes(k) == [i \in 1..k |-> "/"]

\* base URLs: a host with 0..MaxSlashes trailing slashes
BaseUrls == { <<"x">> \o Slashes(k) : k \in 0..MaxSlashes }

\* url_path_prefix values: none, and a segment with and without slashes
Prefixes == { << >>, <<"p">>, <<"p", "/">>, <<"/", "p">> }

\* paths: a segment with 0..MaxSlashes leading slashes
UrlPaths == { Slashes(k) \o <<"j">> : k \in 0..MaxSlashes }

endswith(str, c) == Len(str) > 0 /\ str[Len(str)] = c

startswith(str, c) == Len(str) > 0 /\ str[1] = c

\* helpers.make_url
make_url(base, extension) ==
    (IF endswith(base, "/") THEN SubSeq(base, 1, Len(base) - 1) ELSE base)
      \o (IF startswith(extension, "/") THEN extension
          ELSE <<"/">> \o extension)

\* self.base_url as the constructor sets it
SelfBaseUrl(c, base, prefix) ==
    IF c = "current" THEN make_url(base, prefix)
    ELSE (IF base[Len(base)] # "/" THEN base \o <<"/">> ELSE base) \o prefix

\* CommonClient.path_to_url
path_to_url(c, self_base_url, p) ==
    IF c = "current" THEN make_url(self_base_url, p)
    ELSE self_base_url \o p

NoUrl == [base_url |-> << >>, url |-> << >>]

NoOAuthUrl == [first |-> << >>, second |-> << >>]

UrlIdle ==
    /\ base_url = << >>
    /\ url_path_prefix = << >>
    /\ path = << >>
    /\ url = NoUrl
    /\ auth_url = << >>
    /\ oauth_url = NoOAuthUrl

UrlInit ==
    /\ client \in Clients
    /\ base_url \in BaseUrls
    /\ url_path_prefix \in Prefixes
    /\ path \in UrlPaths
    /\ url = NoUrl
    /\ auth_url = << >>
    /\ oauth_url = NoOAuthUrl

\* the client is constructed and one path is resolved: url holds
\* self.base_url and path_to_url(path)
PathToUrl ==
    /\ url = NoUrl
    /\ LET self_base_url == SelfBaseUrl(client, base_url, url_path_prefix)
       IN url' = [base_url |-> self_base_url,
                  url |-> path_to_url(client, self_base_url, path)]
    /\ UNCHANGED <<client, pollVars, batchVars, authVars, transportVars,
                   ctorVars, submitVars, base_url, url_path_prefix, path,
                   auth_url, oauth_url>>

\* '/oauth/token', its two words as one character each
OAuthToken == <<"/", "oauth", "/", "token">>

\* str.endswith(suffix)
EndsWith(str, suffix) ==
    /\ Len(str) >= Len(suffix)
    /\ SubSeq(str, Len(str) - Len(suffix) + 1, Len(str)) = suffix

\* mutant of make_oauth_url: '/oauth/token' is appended in any case
make_oauth_url_AlwaysAppends(url_) ==
    LET stripped == IF endswith(url_, "/")
                    THEN SubSeq(url_, 1, Len(url_) - 1) ELSE url_
    IN make_url(stripped, OAuthToken)

\* helpers.make_oauth_url
make_oauth_url(url_) ==
    LET stripped == IF endswith(url_, "/")
                    THEN SubSeq(url_, 1, Len(url_) - 1) ELSE url_
    IN IF EndsWith(stripped, OAuthToken) THEN stripped
       ELSE make_url(stripped, OAuthToken)

\* the words of an authorization URL before the suffix
UrlWords == {"h", "a", "oauth", "token"}

\* URLs of one or two words, none of which ends with '/oauth/token'
UaaUrls ==
    { <<w>> : w \in UrlWords }
      \cup { <<w, "/", v>> : w \in UrlWords, v \in UrlWords }

\* authorization URLs: with or without the '/oauth/token' suffix and with
\* or without a trailing slash
AuthUrls ==
    { u \o suffix \o slash :
        u \in UaaUrls, suffix \in {<< >>, OAuthToken},
        slash \in {<< >>, <<"/">>} }

OAuthUrl(first, second) == [first |-> first, second |-> second]

OAuthInit ==
    /\ client = "current"
    /\ base_url = << >>
    /\ url_path_prefix = << >>
    /\ path = << >>
    /\ url = NoUrl
    /\ auth_url \in AuthUrls
    /\ oauth_url = NoOAuthUrl

\* make_oauth_url(uaa_url)
MakeOAuthUrl ==
    /\ oauth_url.first = << >>
    /\ oauth_url' = OAuthUrl(make_oauth_url(auth_url), << >>)
    /\ UNCHANGED <<client, pollVars, batchVars, authVars, transportVars,
                   ctorVars, submitVars, base_url, url_path_prefix, path,
                   url, auth_url>>

\* make_oauth_url applied to the URL it returned
MakeOAuthUrlAgain ==
    /\ oauth_url.first # << >>
    /\ oauth_url.second = << >>
    /\ oauth_url' = OAuthUrl(oauth_url.first, make_oauth_url(oauth_url.first))
    /\ UNCHANGED <<client, pollVars, batchVars, authVars, transportVars,
                   ctorVars, submitVars, base_url, url_path_prefix, path,
                   url, auth_url>>

\* -------------------------------------------------------- the constructor

\* legacy constants.MAX_POLLING_THREADS
MAX_POLLING_THREADS == 100

\* legacy constants.MIN_POLLING_INTERVAL = 0.2, in tenths of a second
MIN_POLLING_INTERVAL == 2

\* the limits a constructor clamps to: those of the legacy constants, and
\* for the current package (its common/constants.py) a range of values
Limits(c) ==
    IF c = "legacy"
    THEN {[max_polling_threads |-> MAX_POLLING_THREADS,
           min_polling_interval |-> MIN_POLLING_INTERVAL]}
    ELSE [max_polling_threads : {15, MAX_POLLING_THREADS},
          min_polling_interval : {MIN_POLLING_INTERVAL, 10}]

\* polling_threads arguments
ThreadArgs == {-1, 0, 1, 5, 15, 16, 100, 101, 200}

\* polling_sleep and polling_long_sleep arguments, in tenths of a second
SleepArgs == {0, 1, 2, 3, 10, 50}

NoSleep == [operation |-> "none", interval |-> 0]

\* mutant of ClampInterval: the argument is kept
ClampInterval_Off(x, min) == x

\* mutant of ClampThreads: the argument is kept
ClampThreads_Off(n, max) == n

\* if polling_threads > MAX_POLLING_THREADS: polling_threads = ...
ClampThreads(n, max) == IF n > max THEN max ELSE n

\* if polling_sleep < MIN_POLLING_INTERVAL: polling_sleep = ...
ClampInterval(x, min) == IF x < min THEN min ELSE x

NoAttributes ==
    [polling_threads |-> 0, polling_sleep |-> 0, polling_long_sleep |-> 0,
     pool_maxsize |-> 0, constructed |-> FALSE]

CtorIdle ==
    /\ arguments = [polling_threads |-> 1, polling_sleep |-> 0,
                    polling_long_sleep |-> 0,
                    limits |-> [max_polling_threads |-> MAX_POLLING_THREADS,
                                min_polling_interval |-> MIN_POLLING_INTERVAL]]
    /\ attributes = NoAttributes
    /\ slept = NoSleep

CtorInit ==
    /\ client \in Clients
    /\ arguments \in [polling_threads : ThreadArgs, polling_sleep : SleepArgs,
                      polling_long_sleep : SleepArgs, limits : Limits(client)]
    /\ attributes = NoAttributes
    /\ slept = NoSleep

\* CommonClient.__init__ (legacy: DCApiClient.__init__ and the __init__ of
\* its CommonClient): the clamps, the attributes, and the pool_maxsize the
\* session is built with
Construct ==
    /\ ~attributes.constructed
    /\ LET threads == ClampThreads(arguments.polling_threads,
                                   arguments.limits.max_polling_threads)
           min == arguments.limits.min_polling_interval
       IN attributes' =
            [polling_threads |-> threads,
             polling_sleep |-> ClampInterval(arguments.polling_sleep, min),
             polling_long_sleep |->
                 ClampInterval(arguments.polling_long_sleep, min),
             pool_maxsize |-> threads,
             constructed |-> TRUE]
    /\ UNCHANGED <<client, pollVars, batchVars, authVars, transportVars,
                   urlVars, submitVars, arguments, slept>>

\* the operations that sleep between polls: those that poll with the
\* default interval (classify_document, get_extraction_for_document, ...),
\* train_model and deploy_model, and upload_enrichment_data of the DOX client
SleepingOperations(c) ==
    IF c = "current"
    THEN {"_poll_for_url", "train_model", "deploy_model",
          "upload_enrichment_data"}
    ELSE {"_poll_for_url", "train_model", "deploy_model"}

\* the sleep_interval argument an operation passes to _poll_for_url, in
\* tenths of a second (None: not passed); upload_enrichment_data passes 1
SleepIntervalArgument(op, attrs) ==
    IF op = "upload_enrichment_data" THEN 10
    ELSE IF op \in {"train_model", "deploy_model"}
    THEN attrs.polling_long_sleep
    ELSE None

\* _poll_for_url: if not sleep_interval: sleep_interval = self.polling_sleep
SleepInterval(sleep_interval, attrs) ==
    IF sleep_interval = None THEN attrs.polling_sleep ELSE sleep_interval

Sleep(op, interval) == [operation |-> op, interval |-> interval]

\* an operation of the constructed client sleeps between two polls:
\* time.sleep(sleep_interval) in _poll_for_url
PollSleep ==
    /\ attributes.constructed
    /\ \E op \in SleepingOperations(client) :
         slept' = Sleep(op, SleepInterval(SleepIntervalArgument(op, attributes),
                                          attributes))
    /\ UNCHANGED <<client, pollVars, batchVars, authVars, transportVars,
                   urlVars, submitVars, arguments, attributes>>

\* no request is in the transport, no URL is resolved, no constructor runs
\* ------------------------------------------------ training and deployment

\* largest number of submission POSTs of one call (the call calls itself
\* after each 409; the depth of this recursion is followed up to here)
MaxSubmits == 3

SubmitOperations == {"train_model", "deploy_model"}

\* status codes the submission POST is answered with
SubmitStatuses == {201, 401, 404, 409, 500}

\* a response to the submission POST; already: 'model is already deployed'
\* is in response.text
SubmitResponses ==
    { r \in [status_code : SubmitStatuses, already : BOOLEAN] :
        r.already => r.status_code = 409 }

\* what the call has done so far: POST requests and sleeps, in order
Event(event, status_code, already) ==
    [event |-> event, status_code |-> status_code, already |-> already]

\* time.sleep(self.polling_long_sleep)
LongSleep == Event("polling_long_sleep", None, FALSE)

\* mutant of SubmitBranch: every 409 is waited out
SubmitBranch_AlwaysWaits(c, op, response) ==
    IF response.status_code = 409 THEN "sleep"
    ELSE IF raise_for_status_with_logging(c, response.status_code) # "none"
    THEN raise_for_status_with_logging(c, response.status_code)
    ELSE "poll"

\* train_model / deploy_model after the POST: "sleep" (sleep, then the call
\* calls itself), the error raise_for_status_with_logging raises, or "poll"
SubmitBranch(c, op, response) ==
    IF response.status_code = 409
    THEN IF op = "deploy_model" /\ response.already
            /\ raise_for_status_with_logging(c, 409) # "none"
         THEN raise_for_status_with_logging(c, 409)
         ELSE "sleep"
    ELSE IF raise_for_status_with_logging(c, response.status_code) # "none"
    THEN raise_for_status_with_logging(c, response.status_code)
    ELSE "poll"

Submission(op, state, depth, trace, error) ==
    [op |-> op, state |-> state, depth |-> depth, trace |-> trace,
     error |-> error]

SubmitIdle == submit = Submission("none", "idle", 0, << >>, "none")

\* train_model or deploy_model is called; the poll it ends with is
\* _poll_for_url(..., wait_status=409, sleep_interval=polling_long_sleep)
SubmitInit ==
    /\ client \in Clients
    /\ submit \in { Submission(op, "post", 1, << >>, "none") :
                       op \in SubmitOperations }
    /\ polling_max_attempts \in 0..MaxAttempts
    /\ check_json_status = TRUE
    /\ success_status = 200
    /\ wait_status = 409
    /\ attempt = 0
    /\ requests = << >>
    /\ sleeps = 0
    /\ outcome = Polling

\* the submission POST and the branch on its response
SubmitPost ==
    /\ submit.state = "post"
    /\ \E response \in SubmitResponses :
         LET branch == SubmitBranch(client, submit.op, response)
             trace == Append(submit.trace,
                             Event("POST", response.status_code,
                                   response.already))
         IN submit' =
              IF branch \in {"sleep", "poll"}
              THEN [submit EXCEPT !.state = branch, !.trace = trace]
              ELSE [submit EXCEPT !.state = "raised", !.trace = trace,
                                  !.error = branch]
    /\ UNCHANGED <<client, pollVars, batchVars, authVars, transportVars,
                   urlVars, ctorVars>>

\* time.sleep(self.polling_long_sleep), then the call calls itself
SubmitSleep ==
    /\ submit.state = "sleep"
    /\ submit.depth < MaxSubmits
    /\ submit' = [submit EXCEPT !.state = "post",
                                !.trace = Append(submit.trace, LongSleep),
                                !.depth = submit.depth + 1]
    /\ UNCHANGED <<client, pollVars, batchVars, authVars, transportVars,
                   urlVars, ctorVars>>

\* the poll of the job the submission started
SubmitPoll ==
    /\ submit.state = "poll"
    /\ PollAttempt \/ PollTimeout

RestIdle == TransportIdle /\ UrlIdle /\ CtorIdle /\ SubmitIdle

\* ---------------------------------------------------------- specifications

\* one call of _poll_for_url
Init == PollInit /\ BatchIdle /\ AuthIdle /\ RestIdle

Next == PollAttempt \/ PollTimeout

Spec == Init /\ [][Next]_vars

\* the same call run by a thread that keeps running: every GET is answered
\* and the loop goes on to its next statement
SpecFair == Spec /\ WF_vars(Next)

\* one call of train_model or deploy_model
InitSubmit ==
    /\ SubmitInit /\ BatchIdle /\ AuthIdle
    /\ TransportIdle /\ UrlIdle /\ CtorIdle

NextSubmit == SubmitPost \/ SubmitSleep \/ SubmitPoll

SpecSubmit == InitSubmit /\ [][NextSubmit]_vars

\* one batch call and the consumption of its result
InitBatch == BatchInit /\ PollIdle /\ AuthIdle /\ RestIdle

NextBatch ==
    \/ BatchCall
    \/ WorkerStart
    \/ WorkerFinish
    \/ UploadsDone
    \/ BatchReturn
    \/ CallerNext
    \/ CallerList

SpecBatch == InitBatch /\ [][NextBatch]_vars

\* threads sending requests through one client object and its token cache
InitAuth == AuthInit /\ PollIdle /\ BatchIdle /\ RestIdle

NextAuth ==
    \/ Tick
    \/ \E t \in AuthThreads : Call(t)
    \/ \E t \in AuthThreads : FetchToken(t)
    \/ \E t \in AuthThreads : TokenResponse(t)
    \/ \E t \in AuthThreads : StoreToken(t)
    \/ \E t \in AuthThreads : Response(t)

SpecAuth == InitAuth /\ [][NextAuth]_vars

\* one caller, and a service that answers with any of ApiStatuses
RequestInit ==
    /\ client \in Clients
    /\ now = 0
    /\ token_renewal_buffer \in (IF client = "legacy" THEN Buffers ELSE {0})
    /\ credentials = [n \in CredentialNames |-> TRUE]
    /\ expires_in = 0
    /\ access_token = NoToken
    /\ session = NoToken
    /\ token_requests = 0
    /\ in_flight = {}
    /\ thread = [t \in AuthThreads |-> IdleThread]
    /\ calls = 0
    /\ service = Service({1}, ApiStatuses)

InitRequest == RequestInit /\ PollIdle /\ BatchIdle /\ RestIdle

SpecRequest == InitRequest /\ [][NextAuth]_vars

\* one request through the adapter and its Retry
InitTransport ==
    /\ TransportInit /\ UrlIdle /\ CtorIdle
    /\ PollIdle /\ BatchIdle /\ AuthIdle /\ SubmitIdle

NextTransport == TransportSend \/ TransportSleep

SpecTransport == InitTransport /\ [][NextTransport]_vars

\* one path_to_url on a constructed client
InitUrl ==
    /\ UrlInit /\ TransportIdle /\ CtorIdle
    /\ PollIdle /\ BatchIdle /\ AuthIdle /\ SubmitIdle

NextUrl == PathToUrl

SpecUrl == InitUrl /\ [][NextUrl]_vars

\* make_oauth_url on authorization URLs and on its own results
InitOAuth ==
    /\ OAuthInit /\ TransportIdle /\ CtorIdle
    /\ PollIdle /\ BatchIdle /\ AuthIdle /\ SubmitIdle

NextOAuth == MakeOAuthUrl \/ MakeOAuthUrlAgain

SpecOAuth == InitOAuth /\ [][NextOAuth]_vars

\* one constructor call
InitCtor ==
    /\ CtorInit /\ TransportIdle /\ UrlIdle
    /\ PollIdle /\ BatchIdle /\ AuthIdle /\ SubmitIdle

NextCtor == Construct \/ PollSleep

SpecCtor == InitCtor /\ [][NextCtor]_vars

\* ------------------------------------------------------ claims: the poller

\* the first k responses have the wait status
FirstAreWait(k) ==
    /\ k <= Len(requests)
    /\ \A i \in 1..k : requests[i].status_code = wait_status

\* response i has success_status and the JSON status js
IsSuccessWith(i, js) ==
    /\ i <= Len(requests)
    /\ requests[i].status_code = success_status
    /\ requests[i].status = js

ErrorKinds == {"failed", "timeout", "BDPUnauthorizedException",
               "BDPClientException", "BDPServerException", "HTTPError"}

\* C1: for any k < polling_max_attempts, when the first k polls are answered
\* with wait_status and poll k+1 with success_status and a JSON status of
\* the success set, the poll has returned that last response after exactly
\* k+1 GET requests and exactly k sleeps.
C1_WaitThenSuccess ==
    \A k \in 0..MaxAttempts :
        (k < polling_max_attempts /\ FirstAreWait(k)
            /\ IsSuccessWith(k + 1, "SUCCEEDED"))
        => /\ outcome = [kind |-> "return", response |-> requests[k + 1]]
           /\ Len(requests) = k + 1
           /\ sleeps = k

\* the spec's example: three polls answered 409, then 200 with a success body
C1_Witness ==
    /\ wait_status = 409 /\ success_status = 200 /\ check_json_status
    /\ FirstAreWait(3) /\ IsSuccessWith(4, "SUCCEEDED")
    /\ outcome.kind = "return" /\ sleeps = 3

\* every response so far has success_status and an in-progress JSON status
AllInProgress ==
    \A i \in 1..Len(requests) :
        /\ requests[i].status_code = success_status
        /\ requests[i].status \notin {"SUCCEEDED", "FAILED"}

\* C2: when every poll response has success_status and a JSON status that is
\* neither a success nor a failure status, the poll never ends otherwise than
\* by the polling-timeout exception, and that exception is raised after
\* exactly polling_max_attempts GET requests: never fewer, never more.
C2_TimeoutAfterMaxAttempts ==
    (check_json_status /\ AllInProgress)
    => /\ outcome.kind \in {"Polling", "timeout"}
       /\ Len(requests) <= polling_max_attempts
       /\ (outcome.kind = "timeout" => Len(requests) = polling_max_attempts)

C2_Witness ==
    /\ check_json_status /\ AllInProgress
    /\ polling_max_attempts = 3 /\ Len(requests) = 3
    /\ outcome.kind = "timeout"

\* C3: with check_json_status true, a response that has success_status and a
\* JSON status of the failure set ends the poll with the failed-operation
\* error carrying that response: it is the last GET request, and no sleep
\* follows it.
C3_FailureRaisesAtOnce ==
    \A i \in 1..Len(requests) :
        (check_json_status /\ IsSuccessWith(i, "FAILED"))
        => /\ Len(requests) = i
           /\ outcome = [kind |-> "failed", response |-> requests[i]]
           /\ sleeps <= i - 1

\* a failure body after two in-progress polls
C3_Witness ==
    /\ check_json_status
    /\ IsSuccessWith(1, "PENDING") /\ IsSuccessWith(2, "PENDING")
    /\ IsSuccessWith(3, "FAILED")
    /\ outcome.kind = "failed" /\ sleeps = 2

\* C4: a response whose status is neither wait_status nor success_status
\* ends the poll with an error raised on that very response, and no further
\* GET request is issued.
C4_OtherStatusIsFatal ==
    \A i \in 1..Len(requests) :
        (requests[i].status_code # wait_status
            /\ requests[i].status_code # success_status)
        => /\ Len(requests) = i
           /\ outcome.kind \in ErrorKinds \ {"failed", "timeout"}
           /\ outcome.response = requests[i]


\* ------------------------------------------- claims: the batch operations

\* the values the caller has got so far, without the StopIteration
DeliveredValues == [i \in 1..NumDelivered |-> delivered[i].value]

\* what the call gives its caller: the values got so far and those to come
Outcomes == DeliveredValues \o Pending

DocumentOperations ==
    {"classify_documents", "upload_documents_to_dataset",
     "extract_information_from_documents_with_options"}

\* the operation of item i raised (or, in the polling pass of
\* extract_information_from_documents_with_options, its upload had)
ItemFailed(i) == futures[i].arg.exception \/ ~futures[i].ok

FailedItems ==
    { i \in 1..Len(futures) : futures[i].state = "done" /\ ItemFailed(i) }

\* C5: every batch operation over N inputs produces exactly N outcomes, and
\* outcome i belongs to input i.
C5_OneOutcomePerInput ==
    pc = "returned"
    => /\ Len(Outcomes) = Len(documents_paths)
       /\ \A i \in 1..Len(Outcomes) : Outcomes[i].of = documents_paths[i]

\* slot i holds the outcome of item i: a failure exactly when its operation
\* raised, and computed from its own input
SlotsHoldOwnOutcome ==
    \A i \in 1..Len(futures) :
        /\ futures[i].state = "done"
        /\ futures[i].result.of = futures[i].arg.of
        /\ (futures[i].result.status = "FAILED" <=> ItemFailed(i))
        /\ (futures[i].result.status = "SUCCEEDED" <=> ~ItemFailed(i))

\* C6 as stated: if the per-item operation raises for item k, the batch call
\* itself does not raise, the other items yield their successful results and
\* the failure is the outcome of slot k only.
C6_NoBatchRaise ==
    (pc \in {"returned", "raised"} /\ FailedItems # {})
    => /\ pc = "returned"
       /\ SlotsHoldOwnOutcome
       /\ Len(Outcomes) = Len(futures)
       /\ \A i \in 1..Len(futures) : Outcomes[i] = futures[i].result

\* C6 (amended): if the per-item operation raises for item k, every other
\* item still runs to its own successful result and the failure is the
\* outcome of slot k only; the batch call itself does not raise in the
\* current clients and in the legacy client called with silent=True, and
\* whenever it returns it hands over all these outcomes.
C6_FailureStaysInItsSlot ==
    (pc \in {"returned", "raised"} /\ FailedItems # {})
    => /\ (client = "current" \/ silent) => pc = "returned"
       /\ SlotsHoldOwnOutcome
       /\ pc = "returned"
            => /\ Len(Outcomes) = Len(futures)
               /\ \A i \in 1..Len(futures) : Outcomes[i] = futures[i].result

\* three documents, the second one fails, the call has returned
C6_Witness ==
    /\ pc = "returned" /\ client = "current" /\ Len(futures) = 3
    /\ FailedItems = {2}
    /\ futures[1].result.status = "SUCCEEDED"
    /\ futures[2].result.exception
    /\ futures[3].result.status = "SUCCEEDED"

\* C7: in every batch operation that takes document paths, the captured
\* error of a failed item carries the document path of the input at the
\* same index.
C7_ErrorCarriesDocumentPath ==
    operation \in DocumentOperations
    => \A i \in 1..Len(futures) :
          (futures[i].state = "done" /\ futures[i].result.status = "FAILED")
          => futures[i].result.document_path = documents_paths[i]

\* C8: each next() on a ResultIterator over N outcomes consumes exactly one
\* slot, returns the payload of a success and raises the exception of an
\* error; a raise does not end the iteration: call j <= N delivers slot j,
\* and the call after the N-th signals exhaustion.
C8_ResultIteratorDeliversEachSlotOnce ==
    returned.type = "ResultIterator"
    => /\ Len(delivered) <= Len(futures) + 1
       /\ gen_pos = Min(Len(delivered), Len(futures))
       /\ \A j \in 1..Len(delivered) :
            IF j <= Len(futures)
            THEN /\ delivered[j].value = futures[j].result
                 /\ delivered[j].how =
                      (IF futures[j].result.exception THEN "raise"
                       ELSE "return")
            ELSE delivered[j].how = "stop"

\* an error in the first slot, a success after it, then the exhaustion
C8_Witness ==
    /\ returned.type = "ResultIterator"
    /\ Len(futures) = 3 /\ Len(delivered) = 4
    /\ delivered[1].how = "raise"
    /\ delivered[2].how = "return"
    /\ delivered[3].how = "raise"
    /\ delivered[4].how = "stop"

\* C9: in the legacy client, classify_documents and
\* upload_documents_to_dataset called with silent=False raise one aggregate
\* error, after all items have finished, whenever an item's result has a
\* status other than SUCCEEDED; they never return normally then.
C9_ValidatingModeRaises ==
    (client = "legacy" /\ ~silent /\ Len(documents_paths) > 0)
    => /\ pc = "returned"
            => \A i \in 1..Len(futures) :
                  futures[i].result.status = STATUS_SUCCEEDED
       /\ pc = "raised" => AllDone(futures)

\* C10: in the legacy client, upload_documents_to_dataset returns the upload
\* results: when all N documents are uploaded and succeed, the returned
\* value delivers N results in input order, with silent=True and with
\* silent=False.
C10_UploadReturnsResults ==
    (/\ client = "legacy" /\ operation = "upload_documents_to_dataset"
     /\ pc = "returned"
     /\ Len(futures) = Len(documents_paths)
     /\ \A i \in 1..Len(futures) : futures[i].result.status = STATUS_SUCCEEDED)
    => /\ Len(Outcomes) = Len(documents_paths)
       /\ \A i \in 1..Len(Outcomes) :
            Outcomes[i].document_path = documents_paths[i]

\* ------------------------------------------- claims: tokens and requests

\* thread t has made a call (its fields describe that call)
Called(t) == thread[t].pc # "idle" \/ thread[t].result # NoResult

\* the call of thread t has ended
Finished(t) == thread[t].pc = "idle" /\ thread[t].result # NoResult

\* the call of thread t went on to a token request
Refreshed(t) ==
    \/ thread[t].pc \in {"fetch_token", "token_response", "store_token"}
    \/ thread[t].fetches > 0

\* C11: a call whose request was answered with 401 has refreshed the token
\* and sent the request a second time (and ends on the second answer)
C11_UnauthorizedIsRetriedOnce ==
    \A t \in AuthThreads :
       (client = "current" /\ Finished(t) /\ thread[t].result.response = 401)
          => thread[t].sends = 2 /\ Refreshed(t)

\* C12: a call of the legacy token provider issues a token request exactly
\* when now + renewal_buffer >= the cached expiry (with no token cached the
\* cached expiry is the time of construction, so that this case is part of
\* it): none at T - buffer - 1, one at T - buffer or later
C12_RefreshFromExpiryMinusBuffer ==
    \A t \in AuthThreads :
       (client = "legacy" /\ Called(t))
          => (Refreshed(t) <=> thread[t].margin >= 0)

\* C13: a request goes out only with a token for which now + renewal_buffer
\* has not passed the expiry of the token
C13_TokenNeverUsedInsideBuffer ==
    \A t \in AuthThreads : thread[t].sends > 0 => thread[t].slack >= 0

\* C14: a call that finds a valid token cached makes no token request
C14_ValidTokenIsReused ==
    \A t \in AuthThreads :
       (Called(t) /\ thread[t].valid_at_check) => ~Refreshed(t)

\* two calls have sent their requests after one token request
C14_Witness ==
    /\ token_requests = 1
    /\ \A t \in AuthThreads : Finished(t) /\ thread[t].sends = 1
    /\ \E t \in AuthThreads : thread[t].valid_at_check

\* C15: at most one token request is in flight at a time
C15_OneTokenFetchInFlight == Cardinality(in_flight) <= 1

\* C16: with a credential missing no token request and no API request goes
\* out, and every call ends with the error 'Authentication is missing'
C16_MissingCredentialsFailBeforeNetwork ==
    (client = "current" /\ \E n \in CredentialNames : ~credentials[n])
       => /\ token_requests = 0
          /\ \A t \in AuthThreads :
                /\ thread[t].fetches = 0 /\ thread[t].sends = 0
                /\ Called(t) =>
                     /\ Finished(t)
                     /\ thread[t].result.kind = "BDPClientException"

\* a call has failed on a missing client secret or token URL
C16_Witness ==
    /\ client = "current"
    /\ credentials["client_id"]
    /\ \E n \in CredentialNames : ~credentials[n]
    /\ \E t \in AuthThreads : Finished(t)

\* the token acquisition of the call of thread t has failed
AcquisitionFailed(t) ==
    /\ client = "current" /\ Finished(t)
    /\ thread[t].fetches > 0 /\ thread[t].fetched = NoToken

\* C17: a token acquisition makes at most tries token requests, and one that
\* fails raises an error that wraps its cause
C17_FailedAcquisitionWrapsCause ==
    \A t \in AuthThreads :
       /\ thread[t].fetches <= 2
       /\ AcquisitionFailed(t) =>
            /\ thread[t].result.kind = "BDPApiException"
            /\ thread[t].result.cause # "none"

\* ------------------------------------------- claims: pools and requests

\* C18: the worker pool of a batch call has min(polling_threads, number of
\* items) workers (in the second pass of the DOX call the items are the
\* uploads)
C18_PoolSizeIsMinOfThreadsAndItems ==
    futures # << >>
       => max_workers = Min(polling_threads,
                            IF pass = 1 THEN Len(documents_paths)
                            ELSE Len(futures))

\* C19: a batch call with an empty list of items ends with a ValueError, and
\* no pool was created and no work item was started
C19_EmptyBatchIsValueError ==
    (Len(documents_paths) = 0 /\ pc # "called")
       => /\ pc = "raised"
          /\ raised = "ValueError"
          /\ max_workers = 0
          /\ futures = << >>

\* C20: _request of the current client. With validate=True the response is
\* returned exactly for a status outside 400..599; 401 raises
\* BDPUnauthorizedException, any other 4xx BDPClientException, any 5xx
\* BDPServerException, each with the response and its status code. With
\* validate=False every response is returned
C20_ValidateMapsStatusToError ==
    \A t \in AuthThreads :
       (client = "current" /\ Finished(t) /\ thread[t].sends = 1)
          => LET r == thread[t].result
                 status == r.response
                 raised_with(kind) ==
                    r.kind = kind /\ r.status_code = status
             IN /\ status \in ApiStatuses
                /\ ~thread[t].validate => r.kind = "response"
                /\ thread[t].validate =>
                     /\ r.kind = "response"
                          <=> ~(400 <= status /\ status <= 599)
                     /\ status = 401
                          => raised_with("BDPUnauthorizedException")
                     /\ (400 <= status /\ status <= 499 /\ status # 401)
                          => raised_with("BDPClientException")
                     /\ (500 <= status /\ status <= 599)
                          => raised_with("BDPServerException")

\* a validated request was answered with 599 and raised the server error
C20_Witness ==
    \E t \in AuthThreads :
       /\ client = "current" /\ Finished(t) /\ thread[t].validate
       /\ thread[t].result.kind = "BDPServerException"
       /\ thread[t].result.response = 599
       /\ thread[t].result.status_code = 599

\* ----------------------------- claims: transport, URLs and construction

\* the first k transmissions were answered with 503
FirstAre503(k) == k <= Len(wire) /\ \A i \in 1..k : wire[i] = 503

\* C21: a GET answered 503, 503, 200 is transmitted exactly 3 times and the
\* 200 response is returned; a POST or DELETE is transmitted once whatever
\* the answer, and that response is returned
C21_GetRetriedPostSentOnce ==
    /\ (method = "GET" /\ Len(wire) \in {1, 2} /\ FirstAre503(Len(wire)))
          => transport.state \in {"backoff", "ready"}
    /\ (method = "GET" /\ FirstAre503(2) /\ Len(wire) >= 3 /\ wire[3] = 200)
          => /\ Len(wire) = 3
             /\ transport.state = "returned" /\ transport.response = 200
    /\ (method \in {"POST", "DELETE"} /\ Len(wire) >= 1)
          => /\ Len(wire) = 1
             /\ transport.state = "returned"
             /\ transport.response = wire[1]

\* a GET has come back with 200 after two 503
C21_Witness ==
    /\ method = "GET" /\ wire = <<503, 503, 200>>
    /\ transport.state = "returned" /\ transport.response = 200

\* every transmission was answered with a status of the retry list
AllRetryStatuses == \A i \in 1..Len(wire) : wire[i] \in {500, 502, 503, 504}

\* C22: a request is transmitted at most 4 times; a GET answered with retry
\* statuses 4 times gets the last response back from the transport, which
\* never raises, and only the validation of _request makes it an error
C22_ExhaustedRetryReturnsLastResponse ==
    /\ Len(wire) <= 4
    /\ transport.state # "raised"
    /\ (method = "GET" /\ AllRetryStatuses /\ Len(wire) = 4)
          => /\ transport.state = "returned"
             /\ transport.response = wire[4]
             /\ transport.result.response = wire[4]
             /\ transport.result.kind =
                   IF client = "current" /\ validate_flag
                   THEN "BDPServerException" ELSE "response"

\* a validated GET was answered 503 four times and ended in the server error
C22_Witness ==
    /\ method = "GET" /\ wire = <<503, 503, 503, 503>>
    /\ client = "current" /\ validate_flag
    /\ transport.state = "returned"
    /\ transport.result.kind = "BDPServerException"

RECURSIVE StripTrailing(_)
StripTrailing(str) ==
    IF endswith(str, "/") THEN StripTrailing(SubSeq(str, 1, Len(str) - 1))
    ELSE str

RECURSIVE StripLeading(_)
StripLeading(str) ==
    IF startswith(str, "/") THEN StripLeading(SubSeq(str, 2, Len(str)))
    ELSE str

\* C23: path_to_url gives the base URL of the client and the path with
\* exactly one slash between them, however many slashes the base ends with
\* and the path starts with
C23_OneSlashAtTheJoin ==
    url # NoUrl
       => url.url = StripTrailing(url.base_url) \o <<"/">>
                       \o StripLeading(path)

C24_SingleDocumentRaisesOrReturnsPayload ==
    (operation = "extract_information_from_document" /\ delivered # << >>)
    => /\ Len(delivered) = 1 /\ Len(futures) = 1 /\ pass = 2
       /\ delivered[1].value.of = documents_paths[1]
       /\ IF futures[1].arg.exception \/ ~futures[1].ok
          THEN /\ delivered[1].how = "raise"
               /\ delivered[1].value.exception
               /\ futures[1].arg.exception
                     => delivered[1].value = futures[1].arg
          ELSE /\ delivered[1].how = "return"
               /\ ~delivered[1].value.exception
               /\ delivered[1].value.status = "SUCCEEDED"

\* the upload of the one document went through, its polling failed, and the
\* call raised
C24_Witness ==
    /\ operation = "extract_information_from_document"
    /\ Len(delivered) = 1 /\ pass = 2
    /\ ~futures[1].arg.exception /\ ~futures[1].ok
    /\ delivered[1].how = "raise"

\* C25: in every batch call the number of worker threads running at the same
\* time never exceeds the size of the connection pool of the session.
C25_WorkersWithinConnectionPool ==
    Cardinality({ i \in 1..Len(futures) : futures[i].state = "running" })
        <= pool_maxsize

\* as many workers run as the connection pool has connections, more than one
C25_Witness ==
    /\ pool_maxsize = MaxThreads
    /\ Cardinality({ i \in 1..Len(futures) : futures[i].state = "running" })
         = pool_maxsize
    /\ Len(futures) > pool_maxsize

\* C27: a batch call returns only after every one of its per-item operations
\* has reached its terminal outcome; once it has returned (or raised after
\* its pool ran) no worker is running and no operation changes any more.
C27_ReturnsAfterAllItemsFinished ==
    /\ [](pc \in {"returned", "raised"}
            => \A i \in 1..Len(futures) : futures[i].state = "done")
    /\ [][(pc \in {"returned", "raised"}) => (futures' = futures)]_vars

\* a call over several documents that has returned with all of them finished
C27_Witness ==
    /\ pc = "returned" /\ Len(futures) = MaxDocs
    /\ \A i \in 1..Len(futures) : futures[i].state = "done"
    /\ \E i \in 1..Len(futures) : ~futures[i].ok

\* C29: in extract_information_from_documents_with_options a document whose
\* upload failed is never polled: its upload exception is the outcome of the
\* polling pass at the same index, unchanged; a document whose upload
\* succeeded is polled with the id of its own upload.
C29_FailedUploadIsNotPolled ==
    (operation = "extract_information_from_documents_with_options"
        /\ pass = 2)
    => /\ Len(futures) = Len(documents_paths)
       /\ \A i \in 1..Len(futures) :
            /\ futures[i].arg.of = documents_paths[i]
            /\ futures[i].arg.exception
                 => /\ futures[i].ok
                    /\ futures[i].state = "done"
                         => futures[i].result = futures[i].arg
            /\ ~futures[i].arg.exception
                 => /\ futures[i].arg = Input(documents_paths[i])
                    /\ futures[i].state = "done"
                         => futures[i].result.of = documents_paths[i]

\* the first upload failed and its slot is done, the second document was
\* uploaded and its polling failed
C29_Witness ==
    /\ operation = "extract_information_from_documents_with_options"
    /\ pass = 2 /\ Len(futures) >= 2
    /\ futures[1].arg.exception /\ futures[1].state = "done"
    /\ ~futures[2].arg.exception /\ futures[2].state = "done"
    /\ ~futures[2].ok

\* ------------------------------------- claims: errors and body-less polls

\* C28: every error the current client raises because of an HTTP response
\* (unauthorized, client, server, failed asynchronous operation) carries the
\* response and the HTTP status code of that response.
C28_ErrorCarriesResponseAndStatus ==
    (client = "current"
        /\ outcome.kind \in {"failed", "BDPUnauthorizedException",
                             "BDPClientException", "BDPServerException"})
    => LET e == PollError(client, outcome.kind, outcome.response)
       IN /\ outcome.response = requests[Len(requests)]
          /\ e.response = outcome.response.status_code
          /\ e.status_code = outcome.response.status_code

\* C30: with check_json_status false the poller returns on the first
\* response with success_status, whatever its body says, and never ends with
\* the failed-operation error; polling with success_status 404 and
\* wait_status 200 (undeploy_model) sleeps once for each 200 and completes
\* on the first 404.
C30_NoJsonCheckReturnsOnSuccessStatus ==
    ~check_json_status
    => /\ outcome.kind # "failed"
       /\ \A i \in 1..Len(requests) :
            requests[i].status_code = success_status
            => /\ i = Len(requests)
               /\ outcome = [kind |-> "return", response |-> requests[i]]
       /\ (success_status = 404 /\ wait_status = 200)
            => sleeps = Cardinality({ i \in 1..Len(requests) :
                                        requests[i].status_code = 200 })

\* undeploy_model: two polls answered 200, then a 404 whose body would read
\* as a failure; the poll has slept twice and returned the 404
C30_Witness ==
    /\ ~check_json_status /\ success_status = 404 /\ wait_status = 200
    /\ Len(requests) = 3 /\ sleeps = 2
    /\ requests[1].status_code = 200 /\ requests[2].status_code = 200
    /\ requests[3] = [status_code |-> 404, status |-> "FAILED"]
    /\ outcome = [kind |-> "return", response |-> requests[3]]

\* ------------------------------------------- claims: the end of a poll

\* C31: whenever _poll_for_url raises the polling-timeout exception it has
\* slept exactly polling_max_attempts times, so that the reported wait,
\* sleep_interval * polling_max_attempts, is the time it actually slept.
C31_TimeoutAfterMaxAttemptsSleeps ==
    outcome.kind = "timeout" => sleeps = polling_max_attempts

\* C32: list(iterator) on a ResultIterator raises the captured error of the
\* failed slot with the smallest index; the slots before it have been
\* consumed as successes and no slot after it has been consumed.
C32_EagerCollectionStopsAtFirstError ==
    pc = "listed"
    => LET F == { i \in 1..Len(futures) : futures[i].result.exception }
       IN IF F = {}
          THEN /\ Len(delivered) = Len(futures) + 1
               /\ \A j \in 1..Len(futures) :
                    delivered[j] = Delivery("return", futures[j].result)
               /\ delivered[Len(delivered)].how = "stop"
          ELSE \E k \in F :
                 /\ \A j \in F : k <= j
                 /\ Len(delivered) = k
                 /\ gen_pos = k
                 /\ delivered[k] = Delivery("raise", futures[k].result)
                 /\ \A j \in 1..(k - 1) :
                      delivered[j] = Delivery("return", futures[j].result)

\* three slots, the second and the third failed: list() raised the second
C32_Witness ==
    /\ pc = "listed" /\ Len(futures) = 3
    /\ ~futures[1].result.exception
    /\ futures[2].result.exception /\ futures[3].result.exception
    /\ Len(delivered) = 2 /\ delivered[2].how = "raise"

Posts == { i \in 1..Len(submit.trace) : submit.trace[i].event = "POST" }

\* C34: train_model and deploy_model end after a bounded number of requests
\* whatever the server does: the number of submission POSTs is bounded by
\* polling_max_attempts, as the polls of _poll_for_url are.
C34_SubmissionsBoundedByMaxAttempts ==
    submit.op # "none"
    => Cardinality(Posts) <= (IF polling_max_attempts > 1
                              THEN polling_max_attempts ELSE 1)

\* C35: in deploy_model a 409 whose body says the model is already deployed
\* raises a client error at once, without a sleep or another POST; any
\* other 409 is followed by a sleep of polling_long_sleep and then by a new
\* submission POST; the deployment is polled only after a submission
\* response that is neither a 409 nor an error.
C35_DeployDistinguishes409 ==
    submit.op = "deploy_model"
    => LET t == submit.trace
           n == Len(submit.trace)
       IN /\ \A i \in 1..n :
               /\ (t[i] = Event("POST", 409, TRUE))
                    => /\ i = n
                       /\ submit.state = "raised"
                       /\ submit.error \in {"BDPClientException",
                                            "HTTPError"}
               /\ (t[i] = Event("POST", 409, FALSE))
                    => IF i = n THEN submit.state = "sleep"
                       ELSE t[i + 1] = LongSleep
               /\ (t[i] = LongSleep)
                    => /\ i > 1 /\ t[i - 1] = Event("POST", 409, FALSE)
                       /\ IF i = n THEN submit.state = "post"
                          ELSE t[i + 1].event = "POST"
          /\ (submit.state = "poll" \/ requests # << >>
                 \/ outcome.kind # "Polling")
               => /\ submit.state = "poll"
                  /\ n > 0 /\ t[n].event = "POST"
                  /\ t[n].status_code < 400

\* a 409 that is waited out, then the 409 of a model already deployed
C35_Witness ==
    /\ submit.op = "deploy_model"
    /\ submit.trace = <<Event("POST", 409, FALSE), LongSleep,
                        Event("POST", 409, TRUE)>>
    /\ submit.state = "raised"

\* ---------------------------------------- claims: the token cache, again

\* C36: in the legacy client (with a positive renewal buffer, so that the
\* first request always asks for a token), under any interleaving of the
\* threads no request finds the token missing, and a request that goes out
\* with the cached token carries the token the cached expiry belongs to.
C36_RequestsCarryTheTokenOfTheExpiry ==
    (client = "legacy" /\ token_renewal_buffer > 0)
    => \A t \in AuthThreads :
          /\ thread[t].result.kind # "AttributeError"
          /\ (thread[t].sends = 1 /\ thread[t].fetches = 0)
               => thread[t].slack + thread[t].margin = 0

\* C37: a failed token acquisition leaves the cached authentication state
\* unchanged: the legacy token and expiry keep their values, the current
\* client caches no session; and a call of the current client that finds no
\* session asks for a token again and does not send without one.
C37_FailedAcquisitionKeepsCache ==
    [][\A t \in AuthThreads :
         /\ (thread[t].pc = "token_response"
                /\ thread'[t].pc \in {"idle", "fetch_token"})
              => /\ access_token' = access_token
                 /\ expires_in' = expires_in
                 /\ session' = session
         /\ (client = "current" /\ session = NoToken
                /\ thread[t].pc = "idle" /\ thread'[t].pc # "idle")
              => thread'[t].pc = "fetch_token"]_vars

\* the acquisition of one call has failed, no session is cached, and
\* another call is asking for a token
C37_Witness ==
    /\ client = "current" /\ session = NoToken
    /\ thread[1].pc = "idle" /\ thread[1].fetches > 0
    /\ thread[1].fetched = NoToken /\ thread[1].result # NoResult
    /\ thread[2].pc = "fetch_token"

\* ------------------------------------------------- claims: content types

C39_SleepNeverBelowMinimum ==
    (client = "current" /\ slept # NoSleep)
    => slept.interval >= arguments.limits.min_polling_interval

\* a client constructed with intervals below the minimum has slept the
\* minimum between two polls of a training job
C39_Witness ==
    /\ client = "current"
    /\ arguments.polling_long_sleep < arguments.limits.min_polling_interval
    /\ slept = Sleep("train_model", arguments.limits.min_polling_interval)

\* ------------------------------------------- claims: the token endpoint

\* C40: make_oauth_url is normalizing and idempotent: for an authorization
\* URL with or without a trailing slash and with or without the
\* '/oauth/token' suffix the result ends with exactly one '/oauth/token',
\* and make_oauth_url applied to the result returns it unchanged.
C40_OAuthUrlNormalizedAndIdempotent ==
    /\ oauth_url.first # << >>
         => LET n == Len(oauth_url.first)
                rest == SubSeq(oauth_url.first, 1, n - 4)
            IN /\ n >= 4
               /\ SubSeq(oauth_url.first, n - 3, n)
                    = <<"/", "oauth", "/", "token">>
               /\ ~(Len(rest) >= 4
                      /\ SubSeq(rest, Len(rest) - 3, Len(rest))
                           = <<"/", "oauth", "/", "token">>)
               /\ \E u \in UaaUrls : rest = u
    /\ oauth_url.second # << >> => oauth_url.second = oauth_url.first

\* a URL with the suffix and a trailing slash, normalized twice
C40_Witness ==
    /\ auth_url = <<"h", "/", "oauth", "/", "token", "/">>
    /\ oauth_url.first = <<"h", "/", "oauth", "/", "token">>
    /\ oauth_url.second = oauth_url.first

====
